---- MODULE Spec2Model ----
(***************************************************************************)
(* funcorder-fix: detection of method-ordering violations and the          *)
(* byte-splice reorderer.                                                  *)
(*                                                                         *)
(* A source buffer is a sequence of bytes.  One byte of the model stands   *)
(* for one lexical unit of the Go file: a type declaration, a function     *)
(* header (name and receiver), a body statement, the closing brace, a      *)
(* comment line, a blank line.  Parse recovers the declarations from the   *)
(* bytes as go/parser does; positions are token.Pos values of a fresh      *)
(* FileSet (Pos = offset + 1).                                             *)
(***************************************************************************)
EXTENDS Integers, Sequences, FiniteSets, TLC

VARIABLES
    disk,     \* the file at FilePath
    cfg,      \* the Config the Fixer was built with
    result,   \* the Result of the last ProcessFile
    report,   \* the violations Detect reported in the last ProcessFile
    prev,     \* the Result of the ProcessFile before the last one
    stdout,   \* what the last WriteResult printed
    pc,       \* where main is: "idle" before a run, "processed" after ProcessFile
    call      \* a function of the packages called on its own: arguments, result

mainVars == <<disk, cfg, result, report, prev, stdout, pc>>
vars == <<disk, cfg, result, report, prev, stdout, pc, call>>

-----------------------------------------------------------------------------
(* Bounds *)

\* number of declarations / gap items after the type declarations of a file
MaxDecls == 3

\* lengths of the buffer and of the replacement handed to spliceBytes
MaxBuf == 3
MaxRepl == 2

\* number of type operators around the identifier of a receiver expression
MaxWrap == 2

\* depth of the directories below the root handed to ProcessDirectory
MaxDepth == 1

\* number of paths on the command line of a batch
MaxBatch == 2

\* number of calls of CategorizeMethods on one StructMethods
MaxCalls == 2

-----------------------------------------------------------------------------
(* Bytes of a source file *)

Tok(k, n, rw, rb) == [k |-> k, n |-> n, rw |-> rw, rb |-> rb]

TypeTok(name, kind) == Tok("type", name, <<kind>>, "")
FuncTok(name, rw, rb) == Tok("func", name, rw, rb)
BodyTok(tag) == Tok("body", tag, <<>>, "")
EndTok == Tok("end", "", <<>>, "")
ComTok == Tok("com", "", <<>>, "")
NlTok == Tok("nl", "", <<>>, "")

\* identifiers, and their characters
NameS == "S"
NameT == "T"
NameNewS == "NewS"
NameRun == "Run"
NameAux == "aux"
NameServe == "Serve"
NameStop == "stop"
NoName == ""
NameGone == "Gone"

Chars(name) ==
    CASE name = NameS -> <<"S">>
      [] name = NameT -> <<"T">>
      [] name = NameNewS -> <<"N", "e", "w", "S">>
      [] name = NameRun -> <<"R", "u", "n">>
      [] name = NameAux -> <<"a", "u", "x">>
      [] name = NameServe -> <<"S", "e", "r", "v", "e">>
      [] name = NameStop -> <<"s", "t", "o", "p">>
      [] OTHER -> <<>>

UpperChars == {"N", "R", "S", "T", "M", "O"}

-----------------------------------------------------------------------------
(* strings and go/ast helpers *)

\* strings.HasPrefix, on the characters
HasPrefix(s, p) == Len(s) >= Len(p) /\ SubSeq(s, 1, Len(p)) = p

\* ast.IsExported: the first character is an upper-case letter
IsExported(name) == Len(Chars(name)) > 0 /\ Chars(name)[1] \in UpperChars

isConstructor(name) ==
    \/ HasPrefix(Chars(name), <<"N", "e", "w">>)
    \/ HasPrefix(Chars(name), <<"M", "u", "s", "t">>)
    \/ HasPrefix(Chars(name), <<"O", "r">>)

RECURSIVE TrimRightNl(_)
TrimRightNl(t) ==
    IF Len(t) > 0 /\ t[Len(t)].k = "nl"
    THEN TrimRightNl(SubSeq(t, 1, Len(t) - 1))
    ELSE t

\* fset.Position(pos).Offset for the only file of a fresh FileSet (base 1)
Offset(pos) == pos - 1

\* Go slice expression b[lo:hi] on 0-based offsets
Slice(b, lo, hi) == SubSeq(b, lo + 1, hi)

-----------------------------------------------------------------------------
(* parser.ParseFile *)

\* index of the closing brace of the function whose header is before j; 0
\* when the buffer ends or another declaration starts first (syntax error)
RECURSIVE FuncEnd(_, _)
FuncEnd(src, j) ==
    IF j > Len(src) THEN 0
    ELSE IF src[j].k = "end" THEN j
    ELSE IF src[j].k \in {"body", "com", "nl"} THEN FuncEnd(src, j + 1)
    ELSE 0

\* first byte of the comment group that ends on the line right above byte i
RECURSIVE DocStart(_, _)
DocStart(src, i) ==
    IF i > 1 /\ src[i - 1].k = "com" THEN DocStart(src, i - 1) ELSE i

RECURSIVE ParseDecls(_, _, _)
ParseDecls(src, i, acc) ==
    IF i > Len(src) THEN [ok |-> TRUE, decls |-> acc]
    ELSE LET t == src[i] IN
      CASE t.k = "type" ->
             ParseDecls(src, i + 1, Append(acc,
                 [kind |-> "type", name |-> t.n, rw |-> <<>>, rb |-> "",
                  isStruct |-> (t.rw = <<"struct">>),
                  pos |-> i, end |-> i + 1, doc |-> 0, node |-> <<t>>]))
        [] t.k = "func" ->
             LET e == FuncEnd(src, i + 1)
                 d == DocStart(src, i)
             IN IF e = 0 THEN [ok |-> FALSE, decls |-> <<>>]
                ELSE ParseDecls(src, e + 1, Append(acc,
                 [kind |-> "func", name |-> t.n, rw |-> t.rw, rb |-> t.rb,
                  isStruct |-> FALSE,
                  pos |-> i, end |-> e + 1,
                  doc |-> IF d < i THEN d ELSE 0,
                  node |-> SelectSeq(SubSeq(src, i, e),
                                     LAMBDA x : x.k \notin {"com", "nl"})]))
        [] t.k \in {"com", "nl"} -> ParseDecls(src, i + 1, acc)
        [] OTHER -> [ok |-> FALSE, decls |-> <<>>]

\* variant: a syntax error is not reported
ParseFile_IgnoreErrors(src) ==
    [ok |-> TRUE, decls |-> ParseDecls(src, 1, <<>>).decls]

ParseFile(src) == ParseDecls(src, 1, <<>>)

-----------------------------------------------------------------------------
(* internal/detector: structholder.go *)

\* a receiver type expression is an identifier rb wrapped in the type
\* operators rw, outermost first: <<>> is T, <<"star">> is *T, <<"index">> is
\* T[A], <<"star", "index">> is *T[A], <<"indexlist">> is T[A, B], <<"sel">>
\* is the selector expression p.T
GetReceiverTypeName(expr) ==
    IF expr.rw = <<>> THEN expr.rb
    ELSE IF expr.rw[1] = "star"
         THEN IF Len(expr.rw) = 1 THEN expr.rb ELSE ""
    ELSE IF expr.rw[1] = "index"
         THEN IF Len(expr.rw) = 1 THEN expr.rb ELSE ""
    ELSE ""

\* fn.Recv != nil && len(fn.Recv.List) > 0
HasRecv(fn) == fn.rb # ""

newMethodInfo(fn) ==
    [Name |-> fn.name,
     IsExported |-> IsExported(fn.name),
     IsConstructor |-> isConstructor(fn.name),
     ReceiverType |-> IF HasRecv(fn) THEN GetReceiverTypeName(fn) ELSE "",
     Pos |-> fn.pos,
     End |-> fn.end,
     Doc |-> fn.doc,
     node |-> fn.node]

CategorizeMethods(sm) ==
    [sm EXCEPT
       !.Constructors = @ \o SelectSeq(sm.Methods, LAMBDA m : m.IsConstructor),
       !.ExportedMethods = @ \o SelectSeq(sm.Methods,
                  LAMBDA m : ~m.IsConstructor /\ m.IsExported),
       !.UnexportedMethods = @ \o SelectSeq(sm.Methods,
                  LAMBDA m : ~m.IsConstructor /\ ~m.IsExported)]

\* variant: exported methods put before the constructors
GetExpectedOrder_ExportedFirst(sm) ==
    sm.ExportedMethods \o sm.Constructors \o sm.UnexportedMethods

GetExpectedOrder(sm) ==
    sm.Constructors \o sm.ExportedMethods \o sm.UnexportedMethods

GetCurrentOrder(sm) == sm.Methods

\* variant: only an unexported method before an exported one counts
NeedsReordering_ExportedOnly(sm) ==
    \E i, j \in 1..Len(sm.Methods) :
        /\ i < j
        /\ ~sm.Methods[i].IsConstructor /\ ~sm.Methods[i].IsExported
        /\ ~sm.Methods[j].IsConstructor /\ sm.Methods[j].IsExported

NeedsReordering(sm) ==
    IF Len(sm.Methods) <= 1 THEN FALSE
    ELSE LET currentOrder == GetCurrentOrder(sm)
             expectedOrder == GetExpectedOrder(sm)
         IN IF Len(currentOrder) # Len(expectedOrder) THEN FALSE
            ELSE \E i \in 1..Len(currentOrder) :
                    currentOrder[i].Name # expectedOrder[i].Name

-----------------------------------------------------------------------------
(* internal/detector: detector.go, reports.go, internal/config *)

ViolationConstructor == 0
ViolationExported == 1

\* sort.Slice by a key; the keys sorted here are positions of distinct
\* declarations, so the unstable sort has one outcome
RECURSIVE InsertByPos(_, _)
InsertByPos(sorted, m) ==
    IF sorted = <<>> THEN <<m>>
    ELSE IF m.Pos < Head(sorted).Pos THEN <<m>> \o sorted
    ELSE <<Head(sorted)>> \o InsertByPos(Tail(sorted), m)

\* variant: the methods are left in the order of the declarations
SortByPos_Keep(ms) == ms

RECURSIVE SortByPos(_)
SortByPos(ms) ==
    IF ms = <<>> THEN <<>>
    ELSE InsertByPos(SortByPos(SubSeq(ms, 1, Len(ms) - 1)), ms[Len(ms)])

MapSeq(s, F(_)) == [i \in 1..Len(s) |-> F(s[i])]

StructNames(file) ==
    {file.decls[i].name : i \in {j \in 1..Len(file.decls) :
          file.decls[j].kind = "type" /\ file.decls[j].isStruct}}

\* variant: the receiver type is not compared with the struct name
collectStructMethods_AnyReceiver(file) ==
    [name \in StructNames(file) |->
       CategorizeMethods(
         [StructName |-> name,
          Methods |-> SortByPos(MapSeq(
               SelectSeq(file.decls, LAMBDA d : d.kind = "func" /\ HasRecv(d)),
               newMethodInfo)),
          Constructors |-> <<>>,
          ExportedMethods |-> <<>>,
          UnexportedMethods |-> <<>>])]

collectStructMethods(file) ==
    [name \in StructNames(file) |->
       CategorizeMethods(
         [StructName |-> name,
          Methods |-> SortByPos(MapSeq(
               SelectSeq(file.decls, LAMBDA d :
                   d.kind = "func" /\ HasRecv(d)
                   /\ GetReceiverTypeName(d) = name),
               newMethodInfo)),
          Constructors |-> <<>>,
          ExportedMethods |-> <<>>,
          UnexportedMethods |-> <<>>])]

CollectStructMethods(file) == collectStructMethods(file)

newViolation(vtype, method, structName, target) ==
    [Type |-> vtype,
     MethodPos |-> method.Pos,
     StructName |-> structName,
     MethodName |-> method.Name,
     TargetPos |-> IF vtype = ViolationConstructor THEN target.Pos
                   ELSE target.End,
     TargetName |-> target.Name]

\* index of the first element of s satisfying P, 0 when there is none
FirstIdx(s, P(_)) ==
    LET I == {i \in 1..Len(s) : P(s[i])}
    IN IF I = {} THEN 0 ELSE CHOOSE i \in I : \A j \in I : i <= j

RECURSIVE constructorLoop(_, _)
constructorLoop(sm, i) ==
    IF i > Len(sm.Constructors) THEN <<>>
    ELSE LET constructor == sm.Constructors[i]
             k == FirstIdx(sm.ExportedMethods,
                           LAMBDA exported : exported.Pos < constructor.Pos)
         IN (IF k = 0 THEN <<>>
             ELSE <<newViolation(ViolationConstructor, constructor,
                                 sm.StructName, sm.ExportedMethods[k])>>)
            \o constructorLoop(sm, i + 1)

\* variant: the scan of the exported methods does not stop at the first match
RECURSIVE constructorLoopNoBreak(_, _)
constructorLoopNoBreak(sm, i) ==
    IF i > Len(sm.Constructors) THEN <<>>
    ELSE LET constructor == sm.Constructors[i]
             before == SelectSeq(sm.ExportedMethods,
                           LAMBDA exported : exported.Pos < constructor.Pos)
         IN [k \in 1..Len(before) |->
                newViolation(ViolationConstructor, constructor,
                             sm.StructName, before[k])]
            \o constructorLoopNoBreak(sm, i + 1)

checkConstructorOrdering_NoBreak(sm) ==
    IF Len(sm.Constructors) = 0 THEN <<>> ELSE constructorLoopNoBreak(sm, 1)

checkConstructorOrdering(sm) ==
    IF Len(sm.Constructors) = 0 THEN <<>> ELSE constructorLoop(sm, 1)

RECURSIVE exportedLoop(_, _)
exportedLoop(sm, i) ==
    IF i > Len(sm.UnexportedMethods) THEN <<>>
    ELSE LET unexported == sm.UnexportedMethods[i]
             k == FirstIdx(sm.ExportedMethods,
                           LAMBDA exported : exported.Pos > unexported.Pos)
         IN (IF k = 0 THEN <<>>
             ELSE <<newViolation(ViolationExported, unexported,
                                 sm.StructName, sm.ExportedMethods[k])>>)
            \o exportedLoop(sm, i + 1)

\* variant: the positions are not compared
checkExportedOrdering_NoPos(sm) ==
    [i \in 1..(IF sm.ExportedMethods = <<>> THEN 0
               ELSE Len(sm.UnexportedMethods)) |->
        newViolation(ViolationExported, sm.UnexportedMethods[i],
                     sm.StructName, sm.ExportedMethods[1])]

\* variant: the comparison of the positions is inverted
checkExportedOrdering_Inverted(sm) ==
    LET hit == SelectSeq(sm.UnexportedMethods, LAMBDA unexported :
                   \E k \in 1..Len(sm.ExportedMethods) :
                       sm.ExportedMethods[k].Pos < unexported.Pos)
    IN [i \in 1..Len(hit) |->
           newViolation(ViolationExported, hit[i], sm.StructName,
                        sm.ExportedMethods[1])]

checkExportedOrdering(sm) == exportedLoop(sm, 1)

\* variant: the export check runs only when the constructor check runs
checkStructMethods_Coupled(sm, c) ==
    IF Len(sm.Methods) <= 1 \/ ~c.CheckConstructor THEN <<>>
    ELSE checkConstructorOrdering(sm)
         \o (IF c.CheckExported THEN checkExportedOrdering(sm) ELSE <<>>)

checkStructMethods(sm, c) ==
    IF Len(sm.Methods) <= 1 THEN <<>>
    ELSE (IF c.CheckConstructor THEN checkConstructorOrdering(sm) ELSE <<>>)
         \o (IF c.CheckExported THEN checkExportedOrdering(sm) ELSE <<>>)

\* the orders in which a range statement may visit the keys of a map
MapOrders(keys) ==
    {o \in [1..Cardinality(keys) -> keys] :
        \A i, j \in 1..Cardinality(keys) : i # j => o[i] # o[j]}

RECURSIVE InsertByMethodPos(_, _)
InsertByMethodPos(sorted, v) ==
    IF sorted = <<>> THEN <<v>>
    ELSE IF v.MethodPos < Head(sorted).MethodPos THEN <<v>> \o sorted
    ELSE <<Head(sorted)>> \o InsertByMethodPos(Tail(sorted), v)

RECURSIVE SortByMethodPos(_)
SortByMethodPos(vs) ==
    IF vs = <<>> THEN <<>>
    ELSE InsertByMethodPos(SortByMethodPos(SubSeq(vs, 1, Len(vs) - 1)),
                           vs[Len(vs)])

RECURSIVE detectLoop(_, _, _, _)
detectLoop(structs, c, order, i) ==
    IF i > Len(order) THEN <<>>
    ELSE checkStructMethods(structs[order[i]], c)
         \o detectLoop(structs, c, order, i + 1)

\* variant: the violations are left in the order of the iteration
Detect_NoSort(file, c, order) ==
    detectLoop(CollectStructMethods(file), c, order, 1)

\* Detect, the struct map being ranged over in the given order
Detect(file, c, order) ==
    SortByMethodPos(detectLoop(CollectStructMethods(file), c, order, 1))

\* variant: a report always counts as having violations
HasViolations_Always(r) == TRUE

HasViolations(r) == Len(r) > 0

-----------------------------------------------------------------------------
(* internal/fixer: comment preserver and reorderer *)

\* a byte slice that may be nil
Nil == [isNil |-> TRUE, bytes |-> <<>>]
Bytes(b) == [isNil |-> FALSE, bytes |-> b]

\* variant: the block starts at the first of the comments and blank lines
\* that precede the function, attached to it or not
RECURSIVE LeadingStart(_, _)
LeadingStart(src, i) ==
    IF i > 1 /\ src[i - 1].k \in {"com", "nl"} THEN LeadingStart(src, i - 1)
    ELSE i

GetMethodBlock_Leading(fn, src) ==
    LET start == LeadingStart(src, fn.Pos) IN
      [Name |-> fn.Name,
       StartPos |-> start,
       EndPos |-> fn.End,
       RawText |-> TrimRightNl(Slice(src, Offset(start), Offset(fn.End)))]

GetMethodBlock(fn, src) ==
    LET start == IF fn.Doc # 0 /\ fn.Doc < fn.Pos THEN fn.Doc ELSE fn.Pos
        startOffset == Offset(start)
        endOffset == Offset(fn.End)
        literal == startOffset >= 0 /\ endOffset <= Len(src)
                   /\ startOffset <= endOffset
        rawText == IF literal THEN Slice(src, startOffset, endOffset)
                   ELSE fn.node
    IN [Name |-> fn.Name,
        StartPos |-> IF literal THEN start ELSE fn.Pos,
        EndPos |-> fn.End,
        RawText |-> TrimRightNl(rawText)]

buildStructRegion(sm, src) ==
    IF Len(sm.Methods) = 0
    THEN [err |-> "no methods", name |-> sm.StructName, sm |-> sm,
          blocks |-> <<>>]
    ELSE [err |-> "", name |-> sm.StructName, sm |-> sm,
          blocks |-> [i \in 1..Len(sm.Methods) |->
                         GetMethodBlock(sm.Methods[i], src)]]

\* the name -> rawText map filled from the blocks in source order: a later
\* block overwrites the entry of an earlier block of the same name
byNameOf(blocks) ==
    [n \in {blocks[i].Name : i \in 1..Len(blocks)} |->
       LET I == {i \in 1..Len(blocks) : blocks[i].Name = n}
           last == CHOOSE i \in I : \A j \in I : j <= i
       IN blocks[last].RawText]

\* variant: every slot receives the text of the first expected method
buildSlotReplacements_FirstText(region) ==
    LET byName == byNameOf(region.blocks)
        expectedOrder == GetExpectedOrder(region.sm)
    IN IF Len(expectedOrder) # Len(region.blocks)
       THEN [err |-> "method count mismatch", reps |-> <<>>]
       ELSE [err |-> "",
             reps |-> [i \in 1..Len(region.blocks) |->
                  [start |-> Offset(region.blocks[i].StartPos),
                   end |-> Offset(region.blocks[i].EndPos),
                   text |-> byName[expectedOrder[1].Name]]]]

buildSlotReplacements(region) ==
    LET byName == byNameOf(region.blocks)
        expectedOrder == GetExpectedOrder(region.sm)
    IN IF Len(expectedOrder) # Len(region.blocks)
       THEN [err |-> "method count mismatch", reps |-> <<>>]
       ELSE IF \E i \in 1..Len(region.blocks) :
                  expectedOrder[i].Name \notin DOMAIN byName
       THEN [err |-> "method not found in source map", reps |-> <<>>]
       ELSE [err |-> "",
             reps |-> [i \in 1..Len(region.blocks) |->
                  [start |-> Offset(region.blocks[i].StartPos),
                   end |-> Offset(region.blocks[i].EndPos),
                   text |-> byName[expectedOrder[i].Name]]]]

\* variant: the suffix is taken one byte too late
spliceBytes_DropNext(src, start, end, replacement) ==
    Slice(src, 0, start) \o replacement \o Slice(src, end + 1, Len(src))

\* variant: the replaced bytes are kept after the replacement
spliceBytes_KeepOld(src, start, end, replacement) ==
    Slice(src, 0, start) \o replacement \o Slice(src, start, Len(src))

spliceBytes(src, start, end, replacement) ==
    Slice(src, 0, start) \o replacement \o Slice(src, end, Len(src))

\* the loop collecting the replacements of every struct needing reordering,
\* the struct map being ranged over in the given order
RECURSIVE collectReplacements(_, _, _, _)
collectReplacements(structs, src, order, i) ==
    IF i > Len(order) THEN [err |-> "", reps |-> <<>>]
    ELSE LET sm == structs[order[i]] IN
      IF ~NeedsReordering(sm)
      THEN collectReplacements(structs, src, order, i + 1)
      ELSE LET region == buildStructRegion(sm, src) IN
        IF region.err # "" THEN [err |-> "build region", reps |-> <<>>]
        ELSE LET r == buildSlotReplacements(region) IN
          IF r.err # "" THEN [err |-> "slot replacements", reps |-> <<>>]
          ELSE LET rest == collectReplacements(structs, src, order, i + 1)
               IN IF rest.err # "" THEN rest
                  ELSE [err |-> "", reps |-> r.reps \o rest.reps]

\* sort.Slice, descending by start; the starts are distinct
RECURSIVE InsertByStartDesc(_, _)
InsertByStartDesc(sorted, r) ==
    IF sorted = <<>> THEN <<r>>
    ELSE IF r.start > Head(sorted).start THEN <<r>> \o sorted
    ELSE <<Head(sorted)>> \o InsertByStartDesc(Tail(sorted), r)

\* variant: the replacements are sorted by ascending start
RECURSIVE SortReplacements_Ascending(_)
SortReplacements_Ascending(reps) ==
    IF reps = <<>> THEN <<>>
    ELSE LET rest == SortReplacements_Ascending(SubSeq(reps, 1, Len(reps) - 1))
             r == reps[Len(reps)]
             lower == SelectSeq(rest, LAMBDA x : x.start <= r.start)
             upper == SelectSeq(rest, LAMBDA x : x.start > r.start)
         IN lower \o <<r>> \o upper

RECURSIVE SortReplacements(_)
SortReplacements(reps) ==
    IF reps = <<>> THEN <<>>
    ELSE InsertByStartDesc(SortReplacements(SubSeq(reps, 1, Len(reps) - 1)),
                           reps[Len(reps)])

RECURSIVE applyReplacements(_, _, _)
applyReplacements(buf, reps, i) ==
    IF i > Len(reps) THEN buf
    ELSE applyReplacements(
            spliceBytes(buf, reps[i].start, reps[i].end, reps[i].text),
            reps, i + 1)

\* variant: an error met while collecting keeps the replacements collected
\* before it, and they are applied
RECURSIVE collectReplacements_Partial(_, _, _, _)
collectReplacements_Partial(structs, src, order, i) ==
    IF i > Len(order) THEN [err |-> "", reps |-> <<>>]
    ELSE LET sm == structs[order[i]] IN
      IF ~NeedsReordering(sm)
      THEN collectReplacements_Partial(structs, src, order, i + 1)
      ELSE LET r == buildSlotReplacements(buildStructRegion(sm, src)) IN
        IF r.err # "" THEN [err |-> "slot replacements", reps |-> <<>>]
        ELSE LET rest == collectReplacements_Partial(structs, src, order, i + 1)
             IN [err |-> rest.err, reps |-> r.reps \o rest.reps]

ReorderStructMethods_Partial(src, structs, order) ==
    IF ~\E n \in DOMAIN structs : NeedsReordering(structs[n])
    THEN [err |-> "", bytes |-> Bytes(src)]
    ELSE LET c == collectReplacements_Partial(structs, src, order, 1) IN
      [err |-> c.err,
       bytes |-> Bytes(applyReplacements(src, SortReplacements(c.reps), 1))]

ReorderStructMethods(src, structs, order) ==
    IF ~\E n \in DOMAIN structs : NeedsReordering(structs[n])
    THEN [err |-> "", bytes |-> Bytes(src)]
    ELSE LET c == collectReplacements(structs, src, order, 1) IN
      IF c.err # "" THEN [err |-> c.err, bytes |-> Nil]
      ELSE [err |-> "",
            bytes |-> Bytes(applyReplacements(src,
                                SortReplacements(c.reps), 1))]

-----------------------------------------------------------------------------
(* internal/fixer: the fixer *)

FilePath == "f.go"

\* a path of the file system: no file, or a file and its content
NoFile == [exists |-> FALSE, bytes |-> <<>>]
FileOf(b) == [exists |-> TRUE, bytes |-> b]

\* os.ReadFile
ReadFile(f) ==
    IF f.exists THEN [err |-> "", bytes |-> f.bytes]
    ELSE [err |-> "no such file", bytes |-> <<>>]

\* the zero Result
NoResult ==
    [FilePath |-> "", Violations |-> 0, Fixed |-> FALSE,
     OriginalContent |-> Nil, FixedContent |-> Nil, Error |-> ""]

\* variant: only the first struct the iteration meets is reordered
fixFile_FirstOnly(file, src, order) ==
    LET structs == CollectStructMethods(file)
        keep == {n \in DOMAIN structs : NeedsReordering(structs[n])}
        o == SelectSeq(order, LAMBDA n : n \in keep)
    IN IF keep = {} THEN [err |-> "", bytes |-> Bytes(src)]
       ELSE ReorderStructMethods(src, [n \in {o[1]} |-> structs[n]],
                                 <<o[1]>>)

fixFile(file, src, order) ==
    LET structs == CollectStructMethods(file)
        keep == {n \in DOMAIN structs : NeedsReordering(structs[n])}
        needsReorder == [n \in keep |-> structs[n]]
    IN IF keep = {} THEN [err |-> "", bytes |-> Bytes(src)]
       ELSE ReorderStructMethods(src, needsReorder,
                                 SelectSeq(order, LAMBDA n : n \in keep))

\* the end of ProcessFile: the result r1 completed with what fixFile returned
fixOutcome(r1, fx) ==
    IF fx.err # ""
    THEN [r1 EXCEPT !.Error = "failed to fix file"]
    ELSE [r1 EXCEPT !.FixedContent = fx.bytes, !.Fixed = TRUE]

\* ProcessFile on the path of f; the two struct maps are ranged over in the
\* orders detectOrder and fixOrder
processFile(f, c, detectOrder, fixOrder) ==
    LET rd == ReadFile(f)
        src == rd.bytes
        r0 == [NoResult EXCEPT !.FilePath = FilePath,
                               !.OriginalContent = Bytes(src)]
        file == ParseFile(src)
    IN IF rd.err # ""
       THEN [result |-> [NoResult EXCEPT !.FilePath = FilePath,
                                         !.Error = "failed to read file"],
             report |-> <<>>]
       ELSE IF ~file.ok
       THEN [result |-> [r0 EXCEPT !.Error = "failed to parse file"],
             report |-> <<>>]
       ELSE LET rep == Detect(file, c, detectOrder)
                r1 == [r0 EXCEPT !.Violations = Len(rep)]
            IN IF ~HasViolations(rep) \/ ~c.Fix
               THEN [result |-> r1, report |-> rep]
               ELSE [result |-> fixOutcome(r1, fixFile(file, src, fixOrder)),
                     report |-> rep]

\* WriteResult(result) of a Fixer of configuration c: d is the file at
\* result.FilePath and out what was last printed; what the two become, and
\* the error returned
writeResult(r, c, d, out) ==
    IF ~r.Fixed \/ Len(r.FixedContent.bytes) = 0
    THEN [disk |-> d, stdout |-> out, err |-> ""]
    ELSE IF c.Write
    THEN [disk |-> FileOf(r.FixedContent.bytes), stdout |-> out, err |-> ""]
    ELSE IF c.Diff
    THEN [disk |-> d,
          stdout |-> [diff |-> TRUE, text |-> r.FixedContent.bytes],
          err |-> ""]
    ELSE [disk |-> d,
          stdout |-> [diff |-> FALSE, text |-> r.FixedContent.bytes],
          err |-> ""]

-----------------------------------------------------------------------------
(* The source files processed *)

\* methods of S and what may lie between them
MethodNewS == <<FuncTok(NameNewS, <<"star">>, NameS), EndTok>>
MethodRun == <<ComTok, FuncTok(NameRun, <<"star">>, NameS), EndTok>>
MethodAux == <<FuncTok(NameAux, <<>>, NameS), BodyTok("a"), EndTok>>
MethodAuxLong ==
    <<ComTok, FuncTok(NameAux, <<"star">>, NameS), BodyTok("b"), ComTok,
      EndTok>>
\* a comment, a blank line and a standalone function of the name of a method
GapFunc ==
    <<ComTok, NlTok, FuncTok(NameNewS, <<>>, ""), BodyTok("d"), EndTok>>

Items == {MethodNewS, MethodRun, MethodAux, MethodAuxLong, GapFunc}

\* methods of a second type T, declared around the declarations above
MethodServe == <<FuncTok(NameServe, <<"star">>, NameT), BodyTok("c"), EndTok>>
MethodStop == <<ComTok, FuncTok(NameStop, <<>>, NameT), EndTok>>

\* the same methods with the receiver *T[A] of a generic type
MethodServeGen ==
    <<FuncTok(NameServe, <<"star", "index">>, NameT), BodyTok("c"), EndTok>>
MethodStopGen == <<ComTok, FuncTok(NameStop, <<"star", "index">>, NameT), EndTok>>

\* a function whose body is not closed
Unclosed == <<FuncTok(NameRun, <<"star">>, NameS), BodyTok("e")>>

\* what a file holds around the declarations above; less is the number of
\* declarations the frame gives up
Frames ==
    {[types |-> <<TypeTok(NameS, "struct"), NlTok>>,
      pre |-> <<>>, post |-> <<>>, less |-> 0],
     [types |-> <<TypeTok(NameS, "struct"), TypeTok(NameT, "struct"), NlTok>>,
      pre |-> MethodStop, post |-> MethodServe, less |-> 0],
     [types |-> <<TypeTok(NameT, "struct"), NlTok, TypeTok(NameS, "struct")>>,
      pre |-> MethodServe, post |-> MethodStop, less |-> 0],
     \* T is declared, but not as a struct
     [types |-> <<TypeTok(NameS, "struct"), TypeTok(NameT, "int"), NlTok>>,
      pre |-> MethodStop, post |-> MethodServe, less |-> 1],
     \* T is a generic struct and its methods have pointer receivers
     [types |-> <<TypeTok(NameS, "struct"), TypeTok(NameT, "struct"), NlTok>>,
      pre |-> MethodStopGen, post |-> MethodServeGen, less |-> 1],
     \* T is not declared
     [types |-> <<TypeTok(NameS, "struct"), NlTok>>,
      pre |-> MethodStop, post |-> MethodServe, less |-> 1],
     \* a syntax error at the end of the file
     [types |-> <<TypeTok(NameS, "struct"), NlTok>>,
      pre |-> <<>>, post |-> Unclosed, less |-> 1]}

RECURSIVE Flatten(_)
Flatten(ss) == IF ss = <<>> THEN <<>> ELSE Head(ss) \o Flatten(Tail(ss))

Files ==
    UNION {{fr.types \o fr.pre \o Flatten(ss) \o fr.post :
               ss \in UNION {[1..n -> Items] : n \in 0..(MaxDecls - fr.less)}} :
           fr \in Frames}

\* the configurations main builds from the flags; -d is left unset
Configs ==
    [Fix : BOOLEAN, Write : BOOLEAN, Diff : {FALSE},
     CheckConstructor : BOOLEAN, CheckExported : BOOLEAN]

-----------------------------------------------------------------------------
(* The state machine: funcorder-fix run on one file, once or again *)

\* no function is called on its own
NoCall == [fn |-> "", done |-> FALSE]

Init ==
    /\ disk \in {FileOf(b) : b \in Files} \cup {NoFile}
    /\ cfg \in Configs
    /\ result = NoResult
    /\ report = <<>>
    /\ prev = NoResult
    /\ stdout = [diff |-> FALSE, text |-> <<>>]
    /\ pc = "idle"
    /\ call = NoCall

\* main, up to the result of ProcessFile for the path
ProcessFile ==
    /\ pc = "idle"
    /\ \E detectOrder, fixOrder \in
            MapOrders(StructNames(ParseFile(disk.bytes))) :
         LET p == processFile(disk, cfg, detectOrder, fixOrder) IN
           /\ result' = p.result
           /\ report' = p.report
           /\ prev' = result
    /\ pc' = "processed"
    /\ UNCHANGED <<disk, cfg, stdout, call>>

\* main, from the result on: WriteResult is called for a fixed result, and
\* the run ends
WriteResult ==
    /\ pc = "processed"
    /\ result.Error = ""
    /\ result.Violations > 0
    /\ result.Fixed
    /\ LET w == writeResult(result, cfg, disk, stdout) IN
         disk' = w.disk /\ stdout' = w.stdout
    /\ pc' = "idle"
    /\ UNCHANGED <<cfg, result, report, prev, call>>

Next == ProcessFile \/ WriteResult

Spec == Init /\ [][Next]_vars

-----------------------------------------------------------------------------
(* Functions called on their own, as the tests of the packages call them *)

\* main is not running
NoMain ==
    /\ disk = NoFile
    /\ cfg = [Fix |-> FALSE, Write |-> FALSE, Diff |-> FALSE,
              CheckConstructor |-> TRUE, CheckExported |-> TRUE]
    /\ result = NoResult
    /\ report = <<>>
    /\ prev = NoResult
    /\ stdout = [diff |-> FALSE, text |-> <<>>]
    /\ pc = "idle"

\* the sequences over S of length n at most
SeqsUpTo(S, n) == UNION {[1..k -> S] : k \in 0..n}

\* spliceBytes(src, start, end, replacement), 0 <= start <= end <= len(src)
SpliceCalls ==
    UNION {{[fn |-> "spliceBytes", done |-> FALSE, src |-> b,
             start |-> i, end |-> j, replacement |-> r, ret |-> <<>>] :
               i \in 0..Len(b), j \in 0..Len(b), r \in SeqsUpTo({"x", "y"}, MaxRepl)} :
           b \in SeqsUpTo({"a", "b"}, MaxBuf)}

InitSplice ==
    /\ NoMain
    /\ call \in {c \in SpliceCalls : c.start <= c.end}

CallSpliceBytes ==
    /\ call.fn = "spliceBytes" /\ ~call.done
    /\ call' = [call EXCEPT
                  !.done = TRUE,
                  !.ret = spliceBytes(call.src, call.start, call.end,
                                      call.replacement)]
    /\ UNCHANGED mainVars

NextSplice == CallSpliceBytes

SpecSplice == InitSplice /\ [][NextSplice]_vars

\* GetReceiverTypeName(expr) on the receiver expressions
RecvCalls ==
    {[fn |-> "GetReceiverTypeName", done |-> FALSE,
      expr |-> [rw |-> w, rb |-> n], ret |-> ""] :
        w \in SeqsUpTo({"star", "index", "indexlist", "sel"}, MaxWrap),
        n \in {NameS, NameT, NameNewS}}

InitRecv ==
    /\ NoMain
    /\ call \in RecvCalls

CallGetReceiverTypeName ==
    /\ call.fn = "GetReceiverTypeName" /\ ~call.done
    /\ call' = [call EXCEPT !.done = TRUE,
                            !.ret = GetReceiverTypeName(call.expr)]
    /\ UNCHANGED mainVars

NextRecv == CallGetReceiverTypeName

SpecRecv == InitRecv /\ [][NextRecv]_vars

\* ReorderStructMethods(file, src, structs) on a struct map that the caller
\* built: the map of CollectStructMethods, possibly with one StructMethods
\* changed through its exported fields or methods
Tamper(structs, kind, n) ==
    IF n \notin DOMAIN structs \/ kind = "none" THEN structs
    ELSE [structs EXCEPT ![n] =
       CASE kind = "gone" ->
              \* an expected method that is not among Methods
              IF @.ExportedMethods = <<>> THEN @
              ELSE [@ EXCEPT !.ExportedMethods[1].Name = NameGone]
         [] kind = "twice" -> CategorizeMethods(@)
         [] kind = "empty" -> [@ EXCEPT !.Methods = <<>>]]

ReorderSources ==
    {b \in Files : Cardinality(StructNames(ParseFile(b))) = 2}

ReorderCalls ==
    {[fn |-> "ReorderStructMethods", done |-> FALSE, src |-> b,
      structs |-> Tamper(CollectStructMethods(ParseFile(b)), k, n),
      ret |-> [err |-> "", bytes |-> Nil], result |-> NoResult] :
        b \in ReorderSources,
        k \in {"none", "gone", "twice", "empty"},
        n \in {NameS, NameT}}

InitReorder ==
    /\ NoMain
    /\ call \in ReorderCalls

\* the call, and what ProcessFile makes of its outcome
CallReorderStructMethods ==
    /\ call.fn = "ReorderStructMethods" /\ ~call.done
    /\ \E order \in MapOrders(DOMAIN call.structs) :
         LET out == ReorderStructMethods(call.src, call.structs, order)
             r1 == [NoResult EXCEPT !.FilePath = FilePath,
                                    !.OriginalContent = Bytes(call.src),
                                    !.Violations = 1]
         IN call' = [call EXCEPT !.done = TRUE, !.ret = out,
                                 !.result = fixOutcome(r1, out)]
    /\ UNCHANGED mainVars

NextReorder == CallReorderStructMethods

SpecReorder == InitReorder /\ [][NextReorder]_vars

\* ProcessDirectory(dirPath) on a directory tree.  A directory is a record
\* of the names of its files and of its subdirectories, by name; a path is
\* the sequence of its elements.
FileNames == {"a.go", "b.txt"}
DirNames == {".git", "pkg", "vendor"}
RootNames == {".", "..", "src", "vendor", ".git"}

\* the names of a directory in the lexical order filepath.Walk visits them
WalkOrder == <<".git", "a.go", "b.txt", "pkg", "vendor">>

\* the first byte of a name
FirstByte(name) ==
    CASE name \in {".", "..", ".git"} -> "."
      [] name = "a.go" -> "a"
      [] name = "b.txt" -> "b"
      [] name = "pkg" -> "p"
      [] name = "src" -> "s"
      [] name = "vendor" -> "v"
      [] OTHER -> ""

\* filepath.Ext: the suffix of the last element from its last dot on
Ext(name) ==
    CASE name = "a.go" -> ".go"
      [] name = "b.txt" -> ".txt"
      [] name = ".git" -> ".git"
      [] name \in {".", ".."} -> "."
      [] OTHER -> ""

RECURSIVE Dirs(_)
Dirs(depth) ==
    IF depth = 0
    THEN {[files |-> f, dirs |-> <<>>] : f \in SUBSET FileNames}
    ELSE UNION {{[files |-> f, dirs |-> d] :
                    f \in SUBSET FileNames, d \in [D -> Dirs(depth - 1)]} :
                D \in SUBSET DirNames}

\* filepath.Walk with the callback of ProcessDirectory: the paths handed to
\* ProcessFile, in order; name is info.Name() of the directory at path
RECURSIVE walk(_, _, _)
walkEntries(path, dir, i) ==
    IF i > Len(WalkOrder) THEN <<>>
    ELSE LET name == WalkOrder[i] IN
      (IF name \in DOMAIN dir.dirs
       THEN walk(Append(path, name), name, dir.dirs[name])
       ELSE IF name \in dir.files /\ Ext(name) = ".go"
       THEN <<Append(path, name)>>
       ELSE <<>>)

walk(path, name, dir) ==
    IF name = "vendor" \/ (name # "" /\ FirstByte(name) = ".")
    THEN <<>>
    ELSE walkEntries(path, dir, 1) \o walkEntries(path, dir, 2)
         \o walkEntries(path, dir, 3) \o walkEntries(path, dir, 4)
         \o walkEntries(path, dir, 5)

\* the FilePath of the results, in order
ProcessDirectory(root, dir) == walk(<<root>>, root, dir)

WalkCalls ==
    {[fn |-> "ProcessDirectory", done |-> FALSE, root |-> r, dir |-> d,
      ret |-> <<>>] : r \in RootNames, d \in Dirs(MaxDepth)}

InitWalk ==
    /\ NoMain
    /\ call \in WalkCalls

CallProcessDirectory ==
    /\ call.fn = "ProcessDirectory" /\ ~call.done
    /\ call' = [call EXCEPT !.done = TRUE,
                            !.ret = ProcessDirectory(call.root, call.dir)]
    /\ UNCHANGED mainVars

NextWalk == CallProcessDirectory

SpecWalk == InitWalk /\ [][NextWalk]_vars

\* WriteResult(result) called on its own: on a result of ProcessFile, on
\* the zero Result and on a fixed result without content
WriteSources ==
    {b \in Files : \A i \in 1..Len(b) : b[i].k = "func" => b[i].rb = NameS}

WriteConfigs ==
    [Fix : {TRUE}, Write : BOOLEAN, Diff : BOOLEAN,
     CheckConstructor : {TRUE}, CheckExported : {TRUE}]

InitWrite ==
    /\ disk \in {FileOf(b) : b \in WriteSources}
    /\ cfg \in WriteConfigs
    /\ \E order \in MapOrders(StructNames(ParseFile(disk.bytes))) :
         LET p == processFile(disk, cfg, order, order) IN
           \/ result = p.result /\ report = p.report
           \/ /\ result \in {[NoResult EXCEPT !.FilePath = FilePath],
                             [NoResult EXCEPT !.FilePath = FilePath,
                                              !.Fixed = TRUE]}
              /\ report = <<>>
    /\ prev = NoResult
    /\ stdout = [diff |-> FALSE, text |-> <<>>]
    /\ pc = "processed"
    /\ call = [fn |-> "WriteResult", done |-> FALSE, before |-> disk,
               ret |-> ""]

CallWriteResult ==
    /\ call.fn = "WriteResult" /\ ~call.done
    /\ LET w == writeResult(result, cfg, disk, stdout) IN
         /\ disk' = w.disk
         /\ stdout' = w.stdout
         /\ call' = [call EXCEPT !.done = TRUE, !.ret = w.err]
    /\ UNCHANGED <<cfg, result, report, prev, pc>>

NextWrite == CallWriteResult

SpecWrite == InitWrite /\ [][NextWrite]_vars

\* ReorderStructMethods(file, src, structs) followed step by step through
\* its last loop: the replacements are collected and sorted, then spliced
\* into the copy of src one by one
InitApply ==
    /\ NoMain
    /\ call \in {[fn |-> "ReorderStructMethods", done |-> FALSE,
                  phase |-> "collect", src |-> b,
                  structs |-> CollectStructMethods(ParseFile(b)),
                  replacements |-> <<>>, result |-> <<>>, i |-> 1,
                  ret |-> [err |-> "", bytes |-> Nil]] :
                    b \in ReorderSources}

\* lines 41-74: the quick check, the collection and the sort
ApplyCollect ==
    /\ call.fn = "ReorderStructMethods" /\ call.phase = "collect"
    /\ \E order \in MapOrders(DOMAIN call.structs) :
         IF ~\E n \in DOMAIN call.structs : NeedsReordering(call.structs[n])
         THEN call' = [call EXCEPT !.phase = "returned", !.done = TRUE,
                                   !.ret = [err |-> "",
                                            bytes |-> Bytes(call.src)]]
         ELSE LET c == collectReplacements(call.structs, call.src, order, 1)
              IN IF c.err # ""
                 THEN call' = [call EXCEPT !.phase = "returned",
                                           !.done = TRUE,
                                           !.ret = [err |-> c.err,
                                                    bytes |-> Nil]]
                 ELSE call' = [call EXCEPT
                                 !.phase = "apply",
                                 !.replacements = SortReplacements(c.reps),
                                 !.result = call.src,
                                 !.i = 1]
    /\ UNCHANGED mainVars

\* lines 77-79: one turn of the loop over the sorted replacements
ApplySplice ==
    /\ call.fn = "ReorderStructMethods" /\ call.phase = "apply"
    /\ call.i <= Len(call.replacements)
    /\ LET rep == call.replacements[call.i] IN
         call' = [call EXCEPT
                    !.result = spliceBytes(@, rep.start, rep.end, rep.text),
                    !.i = @ + 1]
    /\ UNCHANGED mainVars

\* line 80
ApplyReturn ==
    /\ call.fn = "ReorderStructMethods" /\ call.phase = "apply"
    /\ call.i > Len(call.replacements)
    /\ call' = [call EXCEPT !.phase = "returned", !.done = TRUE,
                            !.ret = [err |-> "", bytes |-> Bytes(call.result)]]
    /\ UNCHANGED mainVars

NextApply == ApplyCollect \/ ApplySplice \/ ApplyReturn

SpecApply == InitApply /\ [][NextApply]_vars

\* CollectStructMethods(file) on a file whose Decls the caller may have put
\* in another order than that of the source: as parsed, reversed, or with the
\* first declaration moved to the end
DeclOrders(decls) ==
    {decls,
     [i \in 1..Len(decls) |-> decls[Len(decls) + 1 - i]],
     IF decls = <<>> THEN decls ELSE Append(Tail(decls), Head(decls))}

InitCollect ==
    /\ NoMain
    /\ call \in UNION {{[fn |-> "CollectStructMethods", done |-> FALSE,
                         file |-> [ok |-> TRUE, decls |-> ds],
                         ret |-> <<>>] :
                           ds \in DeclOrders(ParseFile(b).decls)} :
                       b \in ReorderSources}

CallCollectStructMethods ==
    /\ call.fn = "CollectStructMethods" /\ ~call.done
    /\ call' = [call EXCEPT !.done = TRUE,
                            !.ret = CollectStructMethods(call.file)]
    /\ UNCHANGED mainVars

NextCollect == CallCollectStructMethods

SpecCollect == InitCollect /\ [][NextCollect]_vars

\* CategorizeMethods() called on a StructMethods whose Methods are collected
\* and sorted: the call of collectStructMethods, and those of a caller of
\* the package after it
InitCategorize ==
    /\ NoMain
    /\ call \in UNION {{[fn |-> "CategorizeMethods", done |-> FALSE,
                         sm |-> [CollectStructMethods(ParseFile(b))[n] EXCEPT
                                   !.Constructors = <<>>,
                                   !.ExportedMethods = <<>>,
                                   !.UnexportedMethods = <<>>],
                         calls |-> 0] :
                           n \in StructNames(ParseFile(b))} :
                       b \in ReorderSources}

CallCategorizeMethods ==
    /\ call.fn = "CategorizeMethods"
    /\ call.calls < MaxCalls
    /\ call' = [call EXCEPT !.sm = CategorizeMethods(@),
                            !.calls = @ + 1,
                            !.done = TRUE]
    /\ UNCHANGED mainVars

NextCategorize == CallCategorizeMethods

SpecCategorize == InitCategorize /\ [][NextCategorize]_vars

\* GetMethodBlock(fn, src) on a function declaration of the file parsed
\* from src
InitBlock ==
    /\ NoMain
    /\ call \in UNION {{[fn |-> "GetMethodBlock", done |-> FALSE, src |-> b,
                         decl |-> ParseFile(b).decls[k],
                         ret |-> [Name |-> NoName, StartPos |-> 0,
                                  EndPos |-> 0, RawText |-> <<>>]] :
                           k \in {j \in 1..Len(ParseFile(b).decls) :
                                    ParseFile(b).decls[j].kind = "func"}} :
                       b \in {f \in Files : ParseFile(f).ok}}

CallGetMethodBlock ==
    /\ call.fn = "GetMethodBlock" /\ ~call.done
    /\ call' = [call EXCEPT
                  !.done = TRUE,
                  !.ret = GetMethodBlock(newMethodInfo(call.decl), call.src)]
    /\ UNCHANGED mainVars

NextBlock == CallGetMethodBlock

SpecBlock == InitBlock /\ [][NextBlock]_vars

\* fixFile(fset, file, src, report) called with a report that holds a
\* violation, whatever the file holds, and what ProcessFile makes of its
\* outcome (lines 80-87)
InitFix ==
    /\ NoMain
    /\ call \in {[fn |-> "fixFile", done |-> FALSE, src |-> b,
                  ret |-> [err |-> "", bytes |-> Nil], result |-> NoResult] :
                    b \in {f \in Files : ParseFile(f).ok}}

CallFixFile ==
    /\ call.fn = "fixFile" /\ ~call.done
    /\ \E order \in MapOrders(StructNames(ParseFile(call.src))) :
         LET out == fixFile(ParseFile(call.src), call.src, order)
             r1 == [NoResult EXCEPT !.FilePath = FilePath,
                                    !.OriginalContent = Bytes(call.src),
                                    !.Violations = 1]
         IN call' = [call EXCEPT !.done = TRUE, !.ret = out,
                                 !.result = fixOutcome(r1, out)]
    /\ UNCHANGED mainVars

NextFix == CallFixFile

SpecFix == InitFix /\ [][NextFix]_vars

\* main on a batch of command-line paths.  A path is a file, present or not,
\* or a directory: its tree, the file at each path that the walk hands over,
\* and the number of files handed over before the walk meets an entry on
\* which lstat or the reading of a directory fails (-1: it meets none).
BatchClean == <<TypeTok(NameS, "struct"), NlTok>> \o MethodNewS \o MethodRun
BatchViolating ==
    <<TypeTok(NameS, "struct"), NlTok>> \o MethodRun \o MethodNewS
BatchBad == <<TypeTok(NameS, "struct"), NlTok>> \o Unclosed

NoDir == [files |-> {}, dirs |-> <<>>]

BatchDirs ==
    {[files |-> {"a.go"},
      dirs |-> [n \in {"pkg"} |-> [files |-> f, dirs |-> <<>>]]] :
        f \in {{}, {"a.go"}}}

BatchPaths ==
    {[kind |-> "file", name |-> "a.go", stat |-> FALSE, f |-> NoFile,
      dir |-> NoDir, at |-> <<>>, stop |-> -1]}
      \cup {[kind |-> "file", name |-> "a.go", stat |-> TRUE, f |-> f,
              dir |-> NoDir, at |-> <<>>, stop |-> -1] :
                f \in {NoFile, FileOf(BatchBad), FileOf(BatchViolating),
                       FileOf(BatchClean)}}
      \cup {[kind |-> "file", name |-> "b.txt", stat |-> TRUE,
              f |-> FileOf(BatchClean), dir |-> NoDir, at |-> <<>>,
              stop |-> -1]}
      \cup UNION {{[kind |-> "dir", name |-> "src", stat |-> TRUE,
                    f |-> NoFile, dir |-> d, at |-> a, stop |-> k] :
                       a \in [1..Len(ProcessDirectory("src", d)) ->
                                {NoFile, FileOf(BatchBad),
                                 FileOf(BatchViolating)}],
                       k \in (-1)..Len(ProcessDirectory("src", d))} :
                   d \in BatchDirs}

BatchConfigs ==
    {c \in Configs : c.CheckConstructor /\ c.CheckExported
                     /\ (c.Write => c.Fix)}

\* ProcessFile(path) on the file f
processFileAt(path, f, c, order) ==
    [processFile(f, c, order, order).result EXCEPT !.FilePath = path]

\* ProcessDirectory(dirPath) with the files and the failures of the walk:
\* the callback returns the error of the walk, which ends the walk
processDirectory(e, c, order) ==
    LET paths == ProcessDirectory(e.name, e.dir)
        n == IF e.stop < 0 THEN Len(paths) ELSE e.stop
        results == [i \in 1..n |-> processFileAt(paths[i], e.at[i], c, order)]
    IN IF e.stop < 0 THEN results
       ELSE Append(results,
                   [NoResult EXCEPT !.FilePath = <<e.name>>,
                                    !.Error = "failed to walk directory"])

processPath(e, c, order) ==
    IF ~e.stat
    THEN <<[NoResult EXCEPT !.FilePath = <<e.name>>,
                            !.Error = "cannot access path"]>>
    ELSE IF e.kind = "dir" THEN processDirectory(e, c, order)
    ELSE IF Ext(e.name) = ".go"
    THEN <<processFileAt(<<e.name>>, e.f, c, order)>>
    ELSE <<>>

\* the loop of main over the results of a path, from the i-th on; st is
\* hasErrors, the errors printed on stderr, the files written and stdout
RECURSIVE mainResults(_, _, _, _)
mainResults(results, c, st, i) ==
    IF i > Len(results) THEN st
    ELSE LET r == results[i] IN
      IF r.Error # ""
      THEN mainResults(results, c,
             [st EXCEPT !.hasErrors = TRUE,
                        !.stderr = Append(@, [FilePath |-> r.FilePath,
                                              Error |-> r.Error])],
             i + 1)
      ELSE IF r.Violations > 0 /\ r.Fixed
      THEN LET d == FileOf(r.OriginalContent.bytes)
               w == writeResult(r, c, d, st.stdout)
           IN mainResults(results, c,
                [st EXCEPT !.stdout = w.stdout,
                           !.written = IF w.disk = d THEN @
                                       ELSE Append(@, [FilePath |-> r.FilePath,
                                                       bytes |-> w.disk.bytes]),
                           !.hasErrors = @ \/ w.err # ""],
                i + 1)
      ELSE mainResults(results, c, st, i + 1)

InitBatch ==
    /\ disk = NoFile
    /\ cfg \in BatchConfigs
    /\ result = NoResult
    /\ report = <<>>
    /\ prev = NoResult
    /\ stdout = [diff |-> FALSE, text |-> <<>>]
    /\ pc = "idle"
    /\ call \in {[fn |-> "main", done |-> FALSE, paths |-> ps, i |-> 1,
                  results |-> <<>>, hasErrors |-> FALSE, stderr |-> <<>>,
                  written |-> <<>>, exit |-> 0] :
                    ps \in UNION {[1..n -> BatchPaths] : n \in 1..MaxBatch}}

\* one turn of the loop of main over the paths
MainPath ==
    /\ call.fn = "main" /\ ~call.done
    /\ call.i <= Len(call.paths)
    /\ \E order \in MapOrders({NameS}) :
         LET rs == processPath(call.paths[call.i], cfg, order)
             st == mainResults(rs, cfg,
                     [hasErrors |-> call.hasErrors, stderr |-> call.stderr,
                      written |-> call.written, stdout |-> stdout], 1)
         IN /\ call' = [call EXCEPT !.i = @ + 1,
                                    !.results = Append(@, rs),
                                    !.hasErrors = st.hasErrors,
                                    !.stderr = st.stderr,
                                    !.written = st.written]
            /\ stdout' = st.stdout
    /\ UNCHANGED <<disk, cfg, result, report, prev, pc>>

\* the end of main: the exit code
MainExit ==
    /\ call.fn = "main" /\ ~call.done
    /\ call.i > Len(call.paths)
    /\ call' = [call EXCEPT !.done = TRUE,
                            !.exit = IF call.hasErrors THEN 1 ELSE 0]
    /\ UNCHANGED mainVars

NextBatch == MainPath \/ MainExit

SpecBatch == InitBatch /\ [][NextBatch]_vars

-----------------------------------------------------------------------------
(* Vocabulary of the properties *)

\* the number of occurrences of x in the sequence s
Count(s, x) == Cardinality({i \in 1..Len(s) : s[i] = x})

\* two sequences hold the same elements with the same multiplicities
SameBag(s, t) ==
    /\ Len(s) = Len(t)
    /\ \A i \in 1..Len(s) : Count(s, s[i]) = Count(t, s[i])

\* the file the last result is about, and the fixed output parsed again
OrigFile == ParseFile(result.OriginalContent.bytes)
FixedFile == ParseFile(result.FixedContent.bytes)

\* the method declarations of the type named n, in source order
MethodDecls(file, n) ==
    SelectSeq(file.decls, LAMBDA d :
        d.kind = "func" /\ HasRecv(d) /\ GetReceiverTypeName(d) = n)

\* 0 for a constructor, 1 for an exported method, 2 for an unexported one
Rank(d) ==
    IF isConstructor(d.name) THEN 0 ELSE IF IsExported(d.name) THEN 1 ELSE 2

\* the methods of n appear as constructors, then exported, then unexported
InOrder(file, n) ==
    LET ms == MethodDecls(file, n)
    IN \A i, j \in 1..Len(ms) : i < j => Rank(ms[i]) <= Rank(ms[j])

\* the structs of the file whose methods are not in order
OutOfOrder(file) == {n \in StructNames(file) : ~InOrder(file, n)}

\* the block [doc-comment start, function end) of a declaration, as offsets
BlockOf(d) ==
    [start |-> Offset(IF d.doc # 0 THEN d.doc ELSE d.pos),
     end |-> Offset(d.end)]

\* the blocks of the methods of the structs in names, ascending
Slots(file, names) ==
    MapSeq(SelectSeq(file.decls, LAMBDA d :
               d.kind = "func" /\ HasRecv(d)
               /\ GetReceiverTypeName(d) \in names),
           BlockOf)

\* the bytes before, between and after the slots
Gaps(src, slots) ==
    [j \in 1..(Len(slots) + 1) |->
       Slice(src,
             IF j = 1 THEN 0 ELSE slots[j - 1].end,
             IF j = Len(slots) + 1 THEN Len(src) ELSE slots[j].start)]

\* the texts of the blocks of the methods of struct n, in source order
BlockTexts(src, file, n) ==
    MapSeq(Slots(file, {n}), LAMBDA b : Slice(src, b.start, b.end))

\* the original texts of the methods of n: constructors, then exported,
\* then unexported methods, each group in source order
ExpectedTexts(src, file, n) ==
    LET ms == MethodDecls(file, n)
        group(r) == SelectSeq(ms, LAMBDA d : Rank(d) = r)
    IN MapSeq(group(0) \o group(1) \o group(2),
              LAMBDA d : Slice(src, BlockOf(d).start, BlockOf(d).end))

\* the violations of the report of type t naming method d of struct n
ViolationsNaming(t, n, d) ==
    {k \in 1..Len(report) :
        /\ report[k].Type = t
        /\ report[k].StructName = n
        /\ report[k].MethodPos = d.pos
        /\ report[k].MethodName = d.name}

\* method d has an exported non-constructor method of ms before it
ExportedBefore(ms, d) ==
    \E i \in 1..Len(ms) : Rank(ms[i]) = 1 /\ ms[i].pos < d.pos

\* method d has an exported non-constructor method of ms after it
ExportedAfter(ms, d) ==
    \E i \in 1..Len(ms) : Rank(ms[i]) = 1 /\ ms[i].pos > d.pos

\* top-level declaration names, as FuzzProcessFile collects them
collectDeclNames(file) == MapSeq(file.decls, LAMBDA d : d.name)

-----------------------------------------------------------------------------
(* Properties *)

\* C1 - idempotence: when a run fixed the file and the fixed content is
\* processed again under the same configuration, the second run reports
\* no violation and fixes nothing.
C1_Idempotence ==
    (prev.Fixed /\ result.OriginalContent = prev.FixedContent)
        => (result.Violations = 0 /\ ~result.Fixed)

\* a second run has processed the output of a first run that reordered
\* methods with one of the checks disabled
C1_Witness ==
    /\ prev.Fixed
    /\ result.OriginalContent = prev.FixedContent
    /\ result.Error = ""
    /\ prev.FixedContent # prev.OriginalContent
    /\ ~cfg.CheckConstructor

\* C2 - gap preservation: in a fixed file, the bytes before, between and
\* after the method blocks of the reordered structs are those of the
\* original, gap by gap.
C2_GapPreservation ==
    result.Fixed =>
        LET file == OrigFile
            fixed == FixedFile
            R == OutOfOrder(file)
        IN /\ fixed.ok
           /\ Gaps(result.FixedContent.bytes, Slots(fixed, R))
                = Gaps(result.OriginalContent.bytes, Slots(file, R))

\* a fixed file with a standalone function between two reordered methods
C2_Witness ==
    /\ result.Fixed
    /\ LET g == Gaps(result.OriginalContent.bytes,
                     Slots(OrigFile, OutOfOrder(OrigFile)))
       IN \E j \in 2..(Len(g) - 1) : \E i \in 1..Len(g[j]) :
             g[j][i].k = "func"

\* C6 - declaration-set preservation: the fixed output parses and has the
\* same top-level declaration names, with the same multiplicities, as the
\* original.
C6_DeclNamesPreserved ==
    result.Fixed =>
        LET fixed == FixedFile
        IN /\ fixed.ok
           /\ SameBag(collectDeclNames(fixed), collectDeclNames(OrigFile))

\* a fixed file in which two methods have the same name
C6_Witness ==
    /\ result.Fixed
    /\ \E i, j \in 1..Len(OrigFile.decls) :
          /\ i < j
          /\ OrigFile.decls[i].kind = "func"
          /\ OrigFile.decls[j].kind = "func"
          /\ HasRecv(OrigFile.decls[i]) /\ HasRecv(OrigFile.decls[j])
          /\ OrigFile.decls[i].name = OrigFile.decls[j].name

\* C7 - no-violation short-circuit: a file all of whose structs have their
\* methods in order is reported with no violation and is not fixed,
\* whatever the toggles and the Fix flag.
C7_NoViolationShortCircuit ==
    (pc = "processed" /\ LET file == OrigFile
                         IN file.ok /\ OutOfOrder(file) = {})
        => /\ result.Violations = 0
           /\ ~result.Fixed
           /\ result.FixedContent = Nil

\* an ordered file with a constructor, an exported and an unexported method
\* has been processed with Fix and both checks enabled
C7_Witness ==
    /\ pc = "processed"
    /\ OutOfOrder(OrigFile) = {}
    /\ cfg.Fix /\ cfg.CheckConstructor /\ cfg.CheckExported
    /\ \E n \in StructNames(OrigFile) :
          {Rank(MethodDecls(OrigFile, n)[i]) :
               i \in 1..Len(MethodDecls(OrigFile, n))} = {0, 1, 2}

\* C3 - method-text preservation: for every reordered struct, the block
\* texts found in its slots after the fix are the original block texts of
\* its methods, with the same multiplicities.
C3_MethodTextsPreserved ==
    result.Fixed =>
        \A n \in OutOfOrder(OrigFile) :
            SameBag(BlockTexts(result.FixedContent.bytes, FixedFile, n),
                    BlockTexts(result.OriginalContent.bytes, OrigFile, n))

\* C4 - byte count: the fixed content is as long as the original content.
C4_ByteCount ==
    result.Fixed =>
        Len(result.FixedContent.bytes) = Len(result.OriginalContent.bytes)

\* C5 - fixed order: after a fix, the slots of every reordered struct hold,
\* in this order, the original texts of its constructors, of its exported
\* methods and of its unexported methods.
C5_FixedOrder ==
    result.Fixed =>
        \A n \in OutOfOrder(OrigFile) :
            BlockTexts(result.FixedContent.bytes, FixedFile, n)
              = ExpectedTexts(result.OriginalContent.bytes, OrigFile, n)

C10_SingleMethod ==
    LET file == OrigFile
    IN file.ok =>
         \A n \in StructNames(file) :
            Len(MethodDecls(file, n)) <= 1 =>
               /\ \A k \in 1..Len(report) : report[k].StructName # n
               /\ ~NeedsReordering(CollectStructMethods(file)[n])

\* a file with a struct of exactly one method has been processed while
\* another struct of the file was reported
C10_Witness ==
    /\ pc = "processed"
    /\ Len(report) > 0
    /\ \E n \in StructNames(OrigFile) : Len(MethodDecls(OrigFile, n)) = 1

\* the violations Detect reports for the file with both checks enabled
FullReport(file, order) ==
    Detect(file, [cfg EXCEPT !.CheckConstructor = TRUE,
                             !.CheckExported = TRUE], order)

\* the violations of vs whose check the configuration enables
EnabledOnly(vs) ==
    SelectSeq(vs, LAMBDA v :
        \/ v.Type = ViolationConstructor /\ cfg.CheckConstructor
        \/ v.Type = ViolationExported /\ cfg.CheckExported)

\* C11 - independent toggles: the report is the report of the run with both
\* checks enabled, less the violations of the disabled checks; so when the
\* file has constructor-ordering violations only and that check is
\* disabled, the result has no violation and is not fixed.
C11_IndependentToggles ==
    LET file == OrigFile
    IN (pc = "processed" /\ file.ok) =>
         \A o \in MapOrders(StructNames(file)) :
            LET full == FullReport(file, o)
            IN /\ report = EnabledOnly(full)
               /\ (/\ ~cfg.CheckConstructor
                   /\ \A k \in 1..Len(full) :
                         full[k].Type = ViolationConstructor)
                    => (result.Violations = 0 /\ ~result.Fixed)

\* a file with constructor-ordering violations only has been processed
\* with Fix enabled and the constructor check disabled
C11_Witness ==
    /\ pc = "processed"
    /\ cfg.Fix /\ ~cfg.CheckConstructor /\ cfg.CheckExported
    /\ \E o \in MapOrders(StructNames(OrigFile)) :
          /\ Len(FullReport(OrigFile, o)) > 0
          /\ \A k \in 1..Len(FullReport(OrigFile, o)) :
                FullReport(OrigFile, o)[k].Type = ViolationConstructor

\* C12 - the violations of the report are in ascending order of the
\* position of the offending method, across the structs of the file.
C12_SortedByPosition ==
    \A i, j \in 1..Len(report) :
        i < j => report[i].MethodPos <= report[j].MethodPos

\* a report of three violations or more that names two structs
C12_Witness ==
    /\ Len(report) >= 3
    /\ \E i, j \in 1..Len(report) :
          report[i].StructName # report[j].StructName

\* C13 - determinism: whatever the orders in which the struct maps are
\* iterated by Detect and by the reorderer, ProcessFile gives the same
\* violation sequence and the same result, fixed bytes included.
C13_Determinism ==
    pc = "processed" =>
        \A d, f \in MapOrders(StructNames(OrigFile)) :
            processFile(disk, cfg, d, f)
              = [result |-> result, report |-> report]

\* a file with two structs, both reported and both reordered by the fix
C13_Witness ==
    /\ pc = "processed"
    /\ result.Fixed
    /\ Cardinality(OutOfOrder(OrigFile)) = 2
    /\ Cardinality({report[k].StructName : k \in 1..Len(report)}) = 2

\* C15 - result flags: Fixed is set only with Fix enabled, a violation
\* detected and no error; otherwise Fixed is unset and FixedContent is
\* nil; OriginalContent is the content of the file as it was read.
C15_ResultFlags ==
    pc = "processed" =>
        /\ result.Fixed =>
              (cfg.Fix /\ result.Violations > 0 /\ result.Error = "")
        /\ (~cfg.Fix \/ result.Violations = 0 \/ result.Error # "") =>
              (~result.Fixed /\ result.FixedContent = Nil)
        /\ (disk.exists => result.OriginalContent = Bytes(disk.bytes))

\* a file with violations has been processed with Fix disabled
C15_Witness ==
    /\ pc = "processed"
    /\ ~cfg.Fix
    /\ result.Violations > 0
    /\ disk.exists
    /\ result.OriginalContent = Bytes(disk.bytes)

\* the source has a function header whose body is not closed before the
\* next declaration or the end of the file
SyntaxError(src) ==
    \E i \in 1..Len(src) :
        /\ src[i].k = "func"
        /\ ~\E j \in (i + 1)..Len(src) :
              /\ src[j].k = "end"
              /\ \A m \in (i + 1)..(j - 1) : src[m].k \in {"body", "com", "nl"}

\* C16 - parse failure: when the file cannot be read or does not parse, the
\* result is present with Error set, and neither detection nor fixing took
\* place: no violation, not fixed, no fixed content.
C16_ParseFailure ==
    (pc = "processed" /\ (~disk.exists \/ SyntaxError(disk.bytes))) =>
        /\ result.FilePath = FilePath
        /\ result.Error # ""
        /\ result.Violations = 0
        /\ report = <<>>
        /\ ~result.Fixed
        /\ result.FixedContent = Nil

\* a file with an unexported method before a constructor and a syntax
\* error after them has been processed with Fix enabled
C16_Witness ==
    /\ pc = "processed"
    /\ disk.exists
    /\ SyntaxError(disk.bytes)
    /\ cfg.Fix /\ cfg.CheckConstructor /\ cfg.CheckExported
    /\ \E i, j \in 1..Len(disk.bytes) :
          /\ i < j
          /\ disk.bytes[i].k = "func" /\ disk.bytes[i].n = NameAux
          /\ disk.bytes[j].k = "func" /\ disk.bytes[j].n = NameRun
          /\ disk.bytes[j].rb = NameS

\* the type name a receiver expression stands for: T for T, *T, T[A],
\* T[A, B], *T[A] and *T[A, B]; the empty string for any other expression
UnderlyingTypeName(expr) ==
    IF expr.rw \in {<<>>, <<"star">>, <<"index">>, <<"indexlist">>,
                    <<"star", "index">>, <<"star", "indexlist">>}
    THEN expr.rb
    ELSE ""

\* the names of the types declared at the top level of the file
DeclaredTypes(file) ==
    {file.decls[i].name :
        i \in {j \in 1..Len(file.decls) : file.decls[j].kind = "type"}}

\* the positions of the functions with a receiver that stands for type n
Members(file, n) ==
    MapSeq(SelectSeq(file.decls, LAMBDA d :
               d.kind = "func" /\ HasRecv(d) /\ UnderlyingTypeName(d) = n),
           LAMBDA d : d.pos)

\* declaration i of the file is a function that is a member of no group
Ungrouped(file, i) ==
    /\ file.decls[i].kind = "func"
    /\ \/ ~HasRecv(file.decls[i])
       \/ UnderlyingTypeName(file.decls[i]) \notin DeclaredTypes(file)

\* C19 - group membership: the groups are those of the types declared at
\* the top level, and the members of the group of T are the functions with
\* a receiver standing for T; a function that is a member of no group is
\* named by no violation and is the same declaration after a fix.
C19_GroupMembership ==
    LET file == OrigFile
        groups == CollectStructMethods(file)
    IN (pc = "processed" /\ file.ok) =>
         /\ DOMAIN groups = DeclaredTypes(file)
         /\ \A n \in DOMAIN groups :
              MapSeq(groups[n].Methods, LAMBDA m : m.Pos) = Members(file, n)
         /\ \A i \in 1..Len(file.decls) :
              Ungrouped(file, i) =>
                /\ \A k \in 1..Len(report) :
                      report[k].MethodPos # file.decls[i].pos
                /\ result.Fixed =>
                      /\ Len(FixedFile.decls) = Len(file.decls)
                      /\ FixedFile.decls[i].node = file.decls[i].node

\* C14 - splice primitive: spliceBytes returns buffer[:start], then the
\* replacement, then buffer[end:]: its length is len(buffer) - (end - start)
\* + len(replacement), the first start bytes are those of the buffer and
\* the bytes from end on follow the replacement unchanged.
C14_Splice ==
    (call.fn = "spliceBytes" /\ call.done) =>
        LET n == Len(call.replacement)
            shift == n - (call.end - call.start)
        IN /\ Len(call.ret) = Len(call.src) + shift
           /\ \A i \in 1..call.start : call.ret[i] = call.src[i]
           /\ \A i \in 1..n : call.ret[call.start + i] = call.replacement[i]
           /\ \A i \in (call.end + 1)..Len(call.src) :
                 call.ret[i + shift] = call.src[i]

\* a splice inside the buffer that changes its length has returned
C14_Witness ==
    /\ call.fn = "spliceBytes" /\ call.done
    /\ 0 < call.start /\ call.start < call.end /\ call.end < Len(call.src)
    /\ Len(call.replacement) > call.end - call.start

\* C18 - receiver type name: GetReceiverTypeName returns the declared type
\* name for the receivers T, *T, T[A], T[A, B], *T[A] and *T[A, B], and
\* the empty string for any other expression.
C18_ReceiverTypeName ==
    (call.fn = "GetReceiverTypeName" /\ call.done) =>
        call.ret = UnderlyingTypeName(call.expr)

\* C17 - all-or-nothing: when ReorderStructMethods returns an error it
\* returns no buffer, and ProcessFile then returns Error set, Fixed unset
\* and no fixed content, the original content being untouched.
C17_AllOrNothing ==
    (call.fn = "ReorderStructMethods" /\ call.done /\ call.ret.err # "") =>
        /\ call.ret.bytes = Nil
        /\ call.result.Error # ""
        /\ ~call.result.Fixed
        /\ call.result.FixedContent = Nil
        /\ call.result.OriginalContent = Bytes(call.src)

\* ReorderStructMethods has returned an error for a map with two structs
\* needing reordering, one of which has valid replacements
C17_Witness ==
    /\ call.fn = "ReorderStructMethods" /\ call.done
    /\ call.ret.err # ""
    /\ \A n \in DOMAIN call.structs : NeedsReordering(call.structs[n])
    /\ \E n \in DOMAIN call.structs :
          buildSlotReplacements(
              buildStructRegion(call.structs[n], call.src)).err = ""

\* the .go files reachable from the directory at path without entering a
\* subdirectory named vendor or whose name starts with a dot
RECURSIVE Reachable(_, _)
Reachable(path, dir) ==
    {Append(path, f) : f \in {g \in dir.files : g = "a.go"}}
      \cup UNION {Reachable(Append(path, n), dir.dirs[n]) :
                     n \in {m \in DOMAIN dir.dirs : m = "pkg"}}

\* C20 - directory traversal: ProcessDirectory returns one result for every
\* .go file reachable from the root without entering a vendor or dot
\* subdirectory, and no other result; the root is traversed whatever its
\* name, "." and ".." included.
C20_DirectoryTraversal ==
    (call.fn = "ProcessDirectory" /\ call.done) =>
        /\ {call.ret[i] : i \in 1..Len(call.ret)}
             = Reachable(<<call.root>>, call.dir)
        /\ \A i, j \in 1..Len(call.ret) : i # j => call.ret[i] # call.ret[j]

\* the Go files of a path of the batch: where each is and what it holds
FilesOfPath(e) ==
    IF e.kind = "dir"
    THEN LET paths == ProcessDirectory(e.name, e.dir) IN
           {[FilePath |-> paths[i], stat |-> TRUE, f |-> e.at[i]] :
               i \in 1..Len(paths)}
    ELSE IF Ext(e.name) = ".go"
    THEN {[FilePath |-> <<e.name>>, stat |-> e.stat, f |-> e.f]}
    ELSE {}

\* the file is not there, cannot be read or does not parse
Fails(x) == ~x.stat \/ ~x.f.exists \/ SyntaxError(x.f.bytes)

\* C21 - failure isolation in a batch: every Go file of every path of the
\* batch, of a directory walk as of the command line, has its result,
\* whatever happened to the others; the result carries an error exactly when
\* the file cannot be read or parsed, and then the error is printed for that
\* file and the exit code is 1.
C21_FailureIsolation ==
    (call.fn = "main" /\ call.done) =>
        \A k \in 1..Len(call.paths) :
          \A x \in FilesOfPath(call.paths[k]) :
            /\ \E j \in 1..Len(call.results[k]) :
                  /\ call.results[k][j].FilePath = x.FilePath
                  /\ (call.results[k][j].Error # "") <=> Fails(x)
            /\ Fails(x) =>
                  /\ call.exit = 1
                  /\ \E j \in 1..Len(call.stderr) :
                        call.stderr[j].FilePath = x.FilePath

\* C22 - output mode: WriteResult changes the file only for a fixed result
\* with Write set and Diff not set; with Diff set the diff is displayed
\* instead; for a result that is not fixed nothing is written or printed and
\* nil is returned.
C22_OutputMode ==
    (call.fn = "WriteResult" /\ call.done) =>
        /\ disk # call.before => (result.Fixed /\ cfg.Write /\ ~cfg.Diff)
        /\ (result.Fixed /\ cfg.Diff /\ Len(result.FixedContent.bytes) > 0) =>
              /\ stdout.diff
              /\ stdout.text = result.FixedContent.bytes
        /\ ~result.Fixed =>
              /\ disk = call.before
              /\ stdout.text = <<>>
              /\ call.ret = ""

\* the buffer src with every slot replaced by its text at once: the bytes
\* outside the slots, and the texts, read in ascending order of the slots
RECURSIVE Substitute(_, _, _)
Substitute(src, slots, pos) ==
    IF slots = {} THEN Slice(src, pos, Len(src))
    ELSE LET r == CHOOSE x \in slots : \A y \in slots : x.start <= y.start
         IN Slice(src, pos, r.start) \o r.text
            \o Substitute(src, slots \ {r}, r.end)

\* C23 - descending application: the slots of the collected replacements are
\* pairwise disjoint, the replacements are applied in strictly descending
\* start offset, before every splice the offsets of each replacement not yet
\* applied delimit in the current buffer the bytes they delimit in the
\* original, and the buffer returned is the original with all slots
\* substituted at once.
C23_DescendingApplication ==
    (call.fn = "ReorderStructMethods" /\ "phase" \in DOMAIN call
       /\ call.replacements # <<>>) =>
      LET reps == call.replacements
          n == Len(reps)
      IN /\ \A j, k \in 1..n :
               j < k => /\ reps[j].start > reps[k].start
                        /\ reps[k].end <= reps[j].start
         /\ \A j \in 1..n : 0 <= reps[j].start /\ reps[j].start < reps[j].end
                            /\ reps[j].end <= Len(call.src)
         /\ \A j \in call.i..n :
               /\ reps[j].end <= Len(call.result)
               /\ Slice(call.result, 0, reps[j].end)
                    = Slice(call.src, 0, reps[j].end)
         /\ call.phase = "returned" =>
               call.ret.bytes
                 = Bytes(Substitute(call.src,
                                    {reps[j] : j \in 1..n}, 0))

\* the replacements of two structs are being applied: two are spliced in,
\* the buffer has no longer the length of the original, and one at least is
\* still to be applied
C23_Witness ==
    /\ call.fn = "ReorderStructMethods" /\ "phase" \in DOMAIN call
    /\ call.phase = "apply"
    /\ call.i = 3 /\ call.i <= Len(call.replacements)
    /\ Len(call.result) # Len(call.src)
    /\ \E j \in 1..2 :
          Len(call.replacements[j].text)
            # call.replacements[j].end - call.replacements[j].start
    /\ Cardinality({n \in DOMAIN call.structs :
                       NeedsReordering(call.structs[n])}) = 2

\* t is a subsequence of s: the elements of s that are in t, in the order
\* of s, are t
Subsequence(t, s) ==
    SelectSeq(s, LAMBDA x : \E i \in 1..Len(t) : t[i] = x) = t

\* C24 - source-order invariant: after CollectStructMethods the Methods of
\* every group are strictly ascending by source position, whatever the order
\* of the declarations handed in, and Constructors, ExportedMethods and
\* UnexportedMethods are subsequences of Methods.
C24_SourceOrder ==
    (call.fn = "CollectStructMethods" /\ call.done) =>
        \A n \in DOMAIN call.ret :
          LET sm == call.ret[n] IN
            /\ \A i, j \in 1..Len(sm.Methods) :
                  i < j => sm.Methods[i].Pos < sm.Methods[j].Pos
            /\ Subsequence(sm.Constructors, sm.Methods)
            /\ Subsequence(sm.ExportedMethods, sm.Methods)
            /\ Subsequence(sm.UnexportedMethods, sm.Methods)

\* the declarations were handed in out of source order, and a group has
\* methods of the three kinds among which methods of the other struct lie
C24_Witness ==
    /\ call.fn = "CollectStructMethods" /\ call.done
    /\ \E i, j \in 1..Len(call.file.decls) :
          /\ i < j
          /\ call.file.decls[i].kind = "func"
          /\ call.file.decls[j].kind = "func"
          /\ call.file.decls[i].rb = NameS /\ call.file.decls[j].rb = NameS
          /\ call.file.decls[i].pos > call.file.decls[j].pos
    /\ NameS \in DOMAIN call.ret /\ NameT \in DOMAIN call.ret
    /\ Len(call.ret[NameS].Methods) = 3
    /\ call.ret[NameS].Constructors # <<>>
    /\ call.ret[NameS].ExportedMethods # <<>>
    /\ call.ret[NameS].UnexportedMethods # <<>>
    /\ Len(call.ret[NameT].Methods) = 2
    /\ call.ret[NameT].Methods[1].Pos < call.ret[NameS].Methods[1].Pos
    /\ call.ret[NameT].Methods[2].Pos > call.ret[NameS].Methods[3].Pos

\* C25 - partition invariant: after any number of calls of
\* CategorizeMethods every method of Methods is in exactly one of
\* Constructors, ExportedMethods and UnexportedMethods, exactly once, a name
\* with a constructor prefix being among the constructors even when it is
\* exported; hence the expected order has the length of Methods.
C25_Partition ==
    (call.fn = "CategorizeMethods" /\ call.calls >= 1) =>
        LET sm == call.sm IN
          /\ \A i \in 1..Len(sm.Methods) :
                LET m == sm.Methods[i] IN
                  /\ Count(sm.Constructors, m)
                       + Count(sm.ExportedMethods, m)
                       + Count(sm.UnexportedMethods, m) = 1
                  /\ (\E p \in {<<"N", "e", "w">>, <<"M", "u", "s", "t">>,
                                <<"O", "r">>} : HasPrefix(Chars(m.Name), p))
                       <=> Count(sm.Constructors, m) = 1
                  /\ Count(sm.ExportedMethods, m) = 1 =>
                        Head(Chars(m.Name)) \in UpperChars
          /\ Len(GetExpectedOrder(sm)) = Len(sm.Methods)

\* C26 - method block span: the block of GetMethodBlock starts at the first
\* byte of the doc comment of the function when it has one and at the start
\* of the function otherwise, and ends at the end of the function; between
\* its start and the function there are only the comments of the doc, no
\* byte of a preceding function and no blank line, its last byte is the
\* closing brace, and doc start <= start < end <= len(src).
C26_MethodBlockSpan ==
    (call.fn = "GetMethodBlock" /\ call.done) =>
        LET d == call.decl
            blk == call.ret
            file == ParseFile(call.src)
        IN /\ blk.StartPos = (IF d.doc # 0 THEN d.doc ELSE d.pos)
           /\ blk.EndPos = d.end
           /\ blk.RawText
                = Slice(call.src, Offset(blk.StartPos), Offset(blk.EndPos))
           /\ \A i \in blk.StartPos..(d.pos - 1) : call.src[i].k = "com"
           /\ call.src[d.pos].k = "func"
           /\ call.src[blk.EndPos - 1].k = "end"
           /\ \A i \in (d.pos + 1)..(blk.EndPos - 2) :
                 call.src[i].k \in {"body", "com"}
           /\ \A j \in 1..Len(file.decls) :
                 file.decls[j].pos < d.pos => file.decls[j].end <= blk.StartPos
           /\ 0 <= Offset(blk.StartPos)
           /\ Offset(blk.StartPos) <= Offset(d.pos)
           /\ Offset(d.pos) < Offset(blk.EndPos)
           /\ Offset(blk.EndPos) <= Len(call.src)

\* the block of a method with a doc comment, declared right after a method
\* whose body ends with a comment
C26_Witness ==
    /\ call.fn = "GetMethodBlock" /\ call.done
    /\ call.decl.doc # 0
    /\ call.ret.StartPos < call.decl.pos
    /\ call.ret.StartPos > 2
    /\ call.src[call.ret.StartPos - 1].k = "end"
    /\ call.src[call.ret.StartPos - 2].k = "com"
    /\ Offset(call.ret.EndPos) < Len(call.src)

C28_MismatchReported ==
    (call.fn = "ReorderStructMethods" /\ call.done
       /\ "phase" \notin DOMAIN call
       /\ \E n \in DOMAIN call.structs :
             Len(GetExpectedOrder(call.structs[n]))
               # Len(call.structs[n].Methods)) =>
        /\ call.ret.err # ""
        /\ call.result.Error # ""
        /\ ~call.result.Fixed

\* C29 - detection complete with respect to the expected order: with both
\* checks enabled, every struct whose methods are not in the order
\* constructors, exported, unexported has at least one violation in the
\* report.
C29_DetectionComplete ==
    (pc = "processed" /\ result.Error = ""
       /\ cfg.CheckConstructor /\ cfg.CheckExported) =>
        \A n \in DOMAIN CollectStructMethods(OrigFile) :
           (NeedsReordering(CollectStructMethods(OrigFile)[n])
              \/ n \in OutOfOrder(OrigFile)) =>
               \E i \in 1..Len(report) : report[i].StructName = n

\* the names of the methods of n: constructors, then exported, then
\* unexported methods, each group in source order
ExpectedNames(file, n) ==
    LET ms == MethodDecls(file, n)
        group(r) == SelectSeq(ms, LAMBDA d : Rank(d) = r)
    IN MapSeq(group(0) \o group(1) \o group(2), LAMBDA d : d.name)

====
